---- MODULE Spec2Model ----
(***************************************************************************)
(* Model of lead-oxide's rate-limited fetch engine (src/src/fetcher.rs):   *)
(* Fetcher::try_get / Fetcher::drain running on one thread per Fetcher,    *)
(* the process-wide LAST_FETCHED mutex, the remote API's responses and     *)
(* their classification (src/src/errors.rs, src/src/proxy.rs).             *)
(* Time is in milliseconds; Instant::now() reads the variable `now`.       *)
(***************************************************************************)
EXTENDS Integers, Sequences, FiniteSets, TLC

\* ---------------------------------------------------------------- bounds
Quantum == 700          \* granularity by which the wall clock advances
MaxTime == 1500         \* the wall clock stops advancing here
QuantumTest == 50       \* the same two for the test build, whose DELAY is 100 ms
MaxTimeTest == 250
MaxCalls == 2           \* try_get calls, all Fetchers together
MaxReqs == 3            \* remote requests, all Fetchers together
MaxReqsClock == 2       \* the same, where only the shared clock is followed
MaxCallsSerialize == 3  \* try_get calls where requests may fail to serialize
MaxCallsDelays == 3     \* calls, requests and clock where the delays of the
MaxReqsDelays == 4      \* test build are followed over four requests
QuantumDelays == 50
MaxTimeDelays == 300
MaxCallsPoison == 3     \* calls, requests and clock where a poisoned clock is
MaxReqsPoison == 3      \* followed over the calls after the panic
QuantumPoison == 1100
MaxTimePoison == 2200
MaxCallsLive == 2       \* try_get calls where the loops may run without end
QuantumLive == 700      \* granularity of time there

\* ------------------------------------------------------ program constants
DELAY == 1100           \* constants::DELAY (cfg(not(test)))
DELAY_TEST == 100       \* constants::DELAY (cfg(test))
FREE_LIMIT == 5         \* Limit::Free
PREMIUM_LIMIT == 20     \* Limit::Premium

INVALID_API_KEY == "Invalid API. Get your API to make unlimited requests at http://pubproxy.com/#premium"
RATE_LIMIT == "We have to temporarily stop you. You're requesting proxies a little too fast (2+ requests per second). Get your API to remove this limit at\n                          http://pubproxy.com/#premium"
DAILY_LIMIT == "You reached the maximum 50 requests for today. Get your API to make unlimited requests at http://pubproxy.com/#premium"
NO_PROXY == "No proxy"
OTHER_TEXT == "Service Unavailable"

\* ------------------------------------------------------------- the world
Keyless == {"k1", "k2"}     \* Fetchers built without an api key
Keyed == {"p"}              \* Fetchers built with an api key
Fetchers == Keyless \cup Keyed
None == "none"

VARIABLES
    now,            \* wall clock (Instant::now())
    cfg_test,       \* cfg!(test): fetch is the mock of the test build
    initialized,    \* lazy_static LAST_FETCHED has been created
    last_fetched,   \* *LAST_FETCHED, the Instant inside the mutex
    lockHolder,     \* thread holding the LAST_FETCHED mutex guard, or None
    poisoned,       \* the mutex's poison flag
    opts,           \* opts[f]: the Opts of Fetcher f
    proxies,        \* proxies[f]: the buffer of Fetcher f
    pc,             \* pc[f]: position of f's thread
    amount,         \* amount[f]: argument of the current / last try_get
    wakeAt,         \* earliest instant thread::sleep returns
    ret,            \* value returned by the last try_get
    drained,        \* value returned by drain
    calls,          \* number of try_get calls made on f
    requests,       \* remote requests f has issued so far
    reqLog,         \* history: start instants of non-premium requests
    callInfo,       \* history: per call, buffer at entry, requests, pages
    appended,       \* history: every record appended to f's buffer
    handed,         \* history: every record returned by an Ok try_get
    lastResp,       \* history: the response to f's latest request (SpecRemote)
    builder,        \* an OptsBuilder handed to try_build (SpecOpts)
    built,          \* what try_build returned for it (SpecOpts)
    cap             \* how far the behaviours of a specification are followed

vars == << now, cfg_test, initialized, last_fetched, lockHolder, poisoned,
           opts, proxies, pc, amount, wakeAt, ret, drained, calls,
           requests, reqLog, callInfo, appended, handed, lastResp, builder, built,
           cap >>

\* ------------------------------------------------------------ sequences
Range(s) == { s[i] : i \in 1..Len(s) }

\* Vec::split_off(at): self keeps [0, at), the returned Vec holds [at, len)
\* (slip: the kept part loses its last record)
split_off_kept_dropping(v, at) == SubSeq(v, 1, at - 1)
split_off_kept(v, at) == SubSeq(v, 1, at)
\* (slip: the returned part starts one record late)
split_off_late(v, at) == SubSeq(v, at + 2, Len(v))
\* (slip: the returned part is taken from the front)
split_off_front(v, at) == SubSeq(v, 1, Len(v) - at)
split_off(v, at) == SubSeq(v, at + 1, Len(v))

Max(a, b) == IF a >= b THEN a ELSE b

RECURSIVE SumOver(_, _)
SumOver(fn, S) ==
    IF S = {} THEN 0 ELSE LET x == CHOOSE y \in S : TRUE IN fn[x] + SumOver(fn, S \ {x})
CeilDiv(a, b) == (a + b - 1) \div b

\* ------------------------------------------------------------------ Opts
\* Durations are in milliseconds; an Option is << >> (None) or << v >>
\* OptsBuilder::default(): nothing set
NoBuilder == [ api_key |-> FALSE, last_checked |-> << >>, time_to_connect |-> << >> ]

\* try_build has not been called
NotBuilt == [ kind |-> "None" ]

\* One minute to an hour; one second to a minute
LAST_CHECKED_BOUNDS == << 60 * 1000, 60 * 60 * 1000 >>
TIME_TO_CONNECT_BOUNDS == << 1000, 60 * 1000 >>

\* Duration::as_secs: the whole seconds of a duration
as_secs(d) == d \div 1000

\* ParamError::OutOfBounds
OutOfBounds(param, bounds, value) ==
    [ kind |-> "Err",
      err |-> [ variant |-> "OutOfBounds", param |-> param, bounds |-> bounds,
                value |-> value ] ]

\* the closure bounds_check of try_from
\* (slip: the bounds themselves rejected)
bounds_check_exclusive(val, param_name, bounds) ==
    IF val # << >> /\ (val[1] <= bounds[1] \/ val[1] >= bounds[2])
    THEN OutOfBounds(param_name, bounds, val[1])
    ELSE [ kind |-> "Ok" ]
bounds_check(val, param_name, bounds) ==
    IF val # << >> /\ (val[1] < bounds[1] \/ val[1] > bounds[2])
    THEN OutOfBounds(param_name, bounds, val[1])
    ELSE [ kind |-> "Ok" ]

\* BoundedVal::new, as LastChecked::new and TimeToConnect::new call it
\* (slip: a value out of range clamped to the nearest bound)
BoundedValNewClamping(val, bounds) ==
    [ kind |-> "Ok",
      val |-> IF val < bounds[1] THEN bounds[1]
              ELSE IF val > bounds[2] THEN bounds[2] ELSE val ]
BoundedValNew(val, bounds) ==
    IF val >= bounds[1] /\ val <= bounds[2]
    THEN [ kind |-> "Ok", val |-> val ]
    ELSE OutOfBounds("", bounds, val)


\* Opts::new: limit is Premium iff an api key was given
\* (slip: the two limits swapped)
OptsNewSwapped(api_key) ==
    [ api_key |-> api_key,
      limit |-> IF api_key THEN FREE_LIMIT ELSE PREMIUM_LIMIT ]
OptsNew(api_key) ==
    [ api_key |-> api_key,
      limit |-> IF api_key THEN PREMIUM_LIMIT ELSE FREE_LIMIT ]

\* Opts::is_premium: true iff a credential was supplied
is_premium(o) == o.api_key

\* Opts::new with the two durations: last_checked is kept in whole
\* minutes, time_to_connect in whole seconds
OptsNewTimed(api_key, last_checked, time_to_connect) ==
    [ api_key |-> api_key,
      limit |-> OptsNew(api_key).limit,
      last_checked |-> IF last_checked = << >> THEN << >>
                       ELSE << as_secs(last_checked[1]) \div 60 >>,
      time_to_connect |-> IF time_to_connect = << >> THEN << >>
                          ELSE << as_secs(time_to_connect[1]) >> ]

\* impl TryFrom<OptsBuilder> for Opts
OptsTryFrom(b) ==
    LET lc == bounds_check(b.last_checked, "last_checked", LAST_CHECKED_BOUNDS)
        ttc == bounds_check(b.time_to_connect, "time_to_connect", TIME_TO_CONNECT_BOUNDS)
    IN  IF lc.kind = "Err" THEN lc
        ELSE IF ttc.kind = "Err" THEN ttc
        ELSE [ kind |-> "Ok",
               val |-> OptsNewTimed(b.api_key, b.last_checked, b.time_to_connect) ]

\* The durations a caller hands to the builder: none, and values at,
\* next to and far from each bound
LastCheckedInputs ==
    { << >> } \cup { << d >> : d \in { 0, 59999, 60000, 60001, 90000,
                                       3599999, 3600000, 3600001, 7200000 } }
TimeToConnectInputs ==
    { << >> } \cup { << d >> : d \in { 0, 999, 1000, 1001, 1500,
                                       59999, 60000, 60001, 120000 } }
Builders ==
    [ api_key : BOOLEAN, last_checked : LastCheckedInputs,
      time_to_connect : TimeToConnectInputs ]

\* ------------------------------------------------ error classification
NamedError(variant) == [ variant |-> variant, status |-> 0, text |-> "" ]

\* impl From<String> for ApiError
ApiErrorFromString(s) ==
    CASE s = INVALID_API_KEY -> NamedError("ApiKey")
      [] s = RATE_LIMIT -> NamedError("RateLimit")
      [] s = DAILY_LIMIT -> NamedError("DailyLimit")
      [] s = NO_PROXY -> NamedError("NoProxy")
      [] OTHER -> NamedError("Unknown")

\* ApiErrorFromResponse looking at the status before the text
ApiErrorFromResponseStatusFirst(resp) ==
    IF resp.status >= 400 /\ resp.status < 500
    THEN [ variant |-> "Client", status |-> resp.status, text |-> resp.text ]
    ELSE IF resp.status >= 500 /\ resp.status < 600
         THEN [ variant |-> "Server", status |-> resp.status, text |-> resp.text ]
         ELSE ApiErrorFromString(resp.text)

\* ApiErrorFromResponse with the lower end of the client range excluded
ApiErrorFromResponseOpenRange(resp) ==
    LET err == ApiErrorFromString(resp.text) IN
    IF err.variant = "Unknown"
    THEN IF resp.status > 400 /\ resp.status < 500
         THEN [ variant |-> "Client", status |-> resp.status, text |-> resp.text ]
         ELSE IF resp.status >= 500 /\ resp.status < 600
              THEN [ variant |-> "Server", status |-> resp.status, text |-> resp.text ]
              ELSE [ variant |-> "Panic", status |-> resp.status, text |-> resp.text ]
    ELSE err

\* impl From<NaiveResponse> for ApiError; variant "Panic" is unreachable!()
ApiErrorFromResponse(resp) ==
    LET err == ApiErrorFromString(resp.text) IN
    IF err.variant = "Unknown"
    THEN IF resp.status >= 400 /\ resp.status < 500
         THEN [ variant |-> "Client", status |-> resp.status, text |-> resp.text ]
         ELSE IF resp.status >= 500 /\ resp.status < 600
              THEN [ variant |-> "Server", status |-> resp.status, text |-> resp.text ]
              ELSE [ variant |-> "Panic", status |-> resp.status, text |-> resp.text ]
    ELSE err

\* NaiveResponse::ok
NaiveResponseOk(resp) == resp.status >= 200 /\ resp.status < 300

\* ------------------------------------------------------ response decoding
\* ignore_bad_countries: a code that does not deserialize becomes Unspecified
ignore_bad_countries(code) == IF code \in {"CA", "US"} THEN code ELSE "Unspecified"

\* impl From<RawProxy> for Proxy, after serde has applied ignore_bad_countries
ProxyFromRaw(raw) ==
    [ socket |-> raw.socket, country |-> ignore_bad_countries(raw.country) ]

\* Proxy::from panics on an invalid time or an invalid int
RawPanics(raw) == ~raw.time_ok

\* proxies_from_json keeping every record of the page
proxies_from_json_unfiltered(resp) ==
    IF ~resp.is_json
    THEN [ kind |-> "Err", val |-> << >> ]
    ELSE IF \E i \in 1..Len(resp.data) : RawPanics(resp.data[i])
         THEN [ kind |-> "Panic", val |-> << >> ]
         ELSE [ kind |-> "Ok",
                val |-> [ i \in 1..Len(resp.data) |-> ProxyFromRaw(resp.data[i]) ] ]

\* proxies_from_json: kind "Err" is the serde error, "Panic" a panic in
\* Proxy::from, "Ok" carries the records whose country is not Unspecified
proxies_from_json(resp) ==
    IF ~resp.is_json
    THEN [ kind |-> "Err", val |-> << >> ]
    ELSE IF \E i \in 1..Len(resp.data) : RawPanics(resp.data[i])
         THEN [ kind |-> "Panic", val |-> << >> ]
         ELSE [ kind |-> "Ok",
                val |-> SelectSeq([ i \in 1..Len(resp.data) |-> ProxyFromRaw(resp.data[i]) ],
                                  LAMBDA p : p.country # "Unspecified") ]

\* Fetcher::fetch of the release build: Ok(records), Err(ApiError) or a panic
FetchOutcome(resp) ==
    IF NaiveResponseOk(resp)
    THEN LET parsed == proxies_from_json(resp) IN
         IF parsed.kind = "Ok" THEN [ kind |-> "Ok", val |-> parsed.val, err |-> NamedError("") ]
         ELSE IF parsed.kind = "Panic" THEN [ kind |-> "Panic", val |-> << >>, err |-> NamedError("") ]
         ELSE LET e == ApiErrorFromResponse(resp) IN
              IF e.variant = "Panic" THEN [ kind |-> "Panic", val |-> << >>, err |-> NamedError("") ]
              ELSE [ kind |-> "Err", val |-> << >>, err |-> e ]
    ELSE LET e == ApiErrorFromResponse(resp) IN
         IF e.variant = "Panic" THEN [ kind |-> "Panic", val |-> << >>, err |-> NamedError("") ]
         ELSE [ kind |-> "Err", val |-> << >>, err |-> e ]

\* --------------------------------------------------------- the remote API
\* A JSON page served to f: n raw records, the first nBad of them carrying
\* a country code outside ISO 3166-1 (socket 0), the others a socket the
\* remote has not served to f before
JsonPage(f, n, nBad, time_ok) ==
    [ status |-> 200, text |-> "json", is_json |-> TRUE,
      data |-> [ i \in 1..n |->
                   [ socket |-> << f, IF i <= nBad THEN 0 ELSE Len(appended[f]) + i - nBad >>,
                     country |-> IF i <= nBad THEN "ZZ" ELSE "CA",
                     time_ok |-> time_ok ] ] ]

TextResponse(status, text) ==
    [ status |-> status, text |-> text, is_json |-> FALSE, data |-> << >> ]

\* no response received yet
NoResp == TextResponse(0, "")

\* What the remote can answer to a request of f (limit = opts[f].limit)
Responses(f) ==
    LET limit == opts[f].limit IN
    { JsonPage(f, limit, 0, TRUE), JsonPage(f, limit, 1, TRUE),
      JsonPage(f, limit, limit, TRUE), JsonPage(f, 0, 0, TRUE),
      JsonPage(f, limit, 0, FALSE),
      TextResponse(200, RATE_LIMIT), TextResponse(200, OTHER_TEXT),
      TextResponse(503, OTHER_TEXT) }

\* Statuses and plain-text bodies an HTTP server can answer with; "" is
\* the body NaiveResponse::from falls back to when it cannot be read
WideStatuses == {200, 204, 302, 400, 404, 499, 500, 503, 599}
WideTexts == {INVALID_API_KEY, RATE_LIMIT, DAILY_LIMIT, NO_PROXY, OTHER_TEXT, ""}

\* Every status with every plain-text body, and the JSON pages
WideResponses(f) ==
    LET limit == opts[f].limit IN
    { TextResponse(s, t) : s \in WideStatuses, t \in WideTexts }
      \cup { JsonPage(f, limit, 0, TRUE), JsonPage(f, limit, 1, TRUE),
             [ JsonPage(f, limit, 0, TRUE) EXCEPT !.status = 404 ] }

\* The mock of the test build: `limit` copies of one valid record
MockOutcome(f) ==
    [ kind |-> "Ok", err |-> NamedError(""),
      val |-> [ i \in 1..opts[f].limit |->
                  [ socket |-> << "1.2.3.4", 4321 >>, country |-> "CA" ] ] ]


\* ------------------------------------------------------------ time
\* constants::DELAY of the build
Delay == IF cfg_test THEN DELAY_TEST ELSE DELAY

\* ------------------------------------------------------ try_get, piecewise
NoRet == [ kind |-> "None", val |-> << >>, err |-> NamedError("") ]
OkRet(v) == [ kind |-> "Ok", val |-> v, err |-> NamedError("") ]
ErrRet(e) == [ kind |-> "Err", val |-> << >>, err |-> e ]

NewCall(buf, holder) ==
    [ pre |-> buf,              \* the buffer when try_get was entered
      reqs |-> 0,               \* remote requests issued by the call
      got |-> << >>,            \* records appended by the call
      recovered |-> FALSE,      \* lock() returned the poisoned guard
      slept |-> << >>,          \* durations slept before each request
      lockAtEntry |-> holder ]  \* who held LAST_FETCHED at entry

\* line 35: the buffer can satisfy the call
\* (slip: > for >=)
EnoughBufferedStrict(buf, a) == Len(buf) > a
EnoughBuffered(buf, a) == Len(buf) >= a

\* lines 45 and 62: the loop condition
\* (slip: the loop fills the buffer to twice the amount)
NeedMoreDouble(buf, a) == Len(buf) < 2 * a
\* (slip: the loop keeps a page in hand beyond the amount)
NeedMoreOverfetch(buf, a) == Len(buf) < a + 5
NeedMore(buf, a) == Len(buf) < a

\* lines 42-52: which fill loop the call enters
\* (slip: the premium branch missing)
FillEntryAlwaysLock(o) == "lock"
FillEntry(o) == IF is_premium(o) THEN "ploop" ELSE "lock"

\* LAST_FETCHED.lock() can return (Ok or Err(poisoned)) only while no
\* other thread holds the guard
\* (slip: no mutual exclusion)
LockFreeAlways(holder) == TRUE
LockFree(holder) == holder = None

\* lines 15-18: the instant LAST_FETCHED is created with, at time t
\* (slip: created with the present instant)
InitialInstantNow(t, delay) == t
InitialInstant(t, delay) == t - delay

\* lines 52-60: the instant the guard protects after lock() returned
\* (slip: the stale instant reused after a poisoning)
LockedInstantStale(isPoisoned, stored, t) == stored
\* (slip: a poisoned instant reset to two delays before the present)
LockedInstantBackdated(isPoisoned, stored, t) ==
    IF isPoisoned THEN t - 2 * DELAY ELSE stored
\* (slip: the instant reset by every lock(), poisoned or not)
LockedInstantAlwaysReset(isPoisoned, stored, t) == t
LockedInstant(isPoisoned, stored, t) == IF isPoisoned THEN t ELSE stored

\* lines 64-67: the duration slept before a request (0: no sleep)
\* (slip: no delay)
SleepDurationNone(t, last, delay) == 0
\* (slip: the whole delay slept whatever has elapsed)
SleepDurationFull(t, last, delay) == IF t - last < delay THEN delay ELSE 0
SleepDuration(t, last, delay) ==
    LET delta == t - last IN IF delta < delay THEN delay - delta ELSE 0

\* Vec::append
\* (slip: the buffer replaced by the page)
vec_assign(buf, page) == page
vec_append(buf, page) == buf \o page

\* line 47 / line 70: self.proxies.append(..) on the buffers of all Fetchers
\* (slip: one buffer shared by every Fetcher)
AppendToAll(bufs, f, page) == [g \in DOMAIN bufs |-> vec_append(bufs[g], page)]
AppendTo(bufs, f, page) == [bufs EXCEPT ![f] = vec_append(@, page)]

\* the amounts a caller asks for: nothing, one record, one more than a
\* number of pages
Amounts(f) == {0, 1} \cup { k * opts[f].limit + 1 : k \in cap.pages }

\* try_get taking the buffer-only path only while nobody holds the clock
try_get_contending(f, a) ==
    /\ pc[f] = "idle"
    /\ SumOver(calls, Fetchers) < cap.calls
    /\ calls' = [calls EXCEPT ![f] = @ + 1]
    /\ amount' = [amount EXCEPT ![f] = a]
    /\ callInfo' = [callInfo EXCEPT ![f] = NewCall(proxies[f], lockHolder)]
    /\ IF EnoughBuffered(proxies[f], a) /\ LockFree(lockHolder)
       THEN /\ ret' = [ret EXCEPT ![f] = OkRet(split_off(proxies[f], Len(proxies[f]) - a))]
            /\ proxies' = [proxies EXCEPT ![f] = split_off_kept(@, Len(@) - a)]
            /\ handed' = [handed EXCEPT ![f] = @ \o split_off(proxies[f], Len(proxies[f]) - a)]
            /\ pc' = pc
       ELSE /\ ret' = [ret EXCEPT ![f] = NoRet]
            /\ pc' = [pc EXCEPT ![f] = FillEntry(opts[f])]
            /\ UNCHANGED << proxies, handed >>
    /\ UNCHANGED << now, cfg_test, cap, lastResp, builder, built, initialized, last_fetched, lockHolder, poisoned, opts,
                    wakeAt, drained, requests, reqLog, appended >>

\* try_get entered: lines 34-41.  The buffer-only path (35-37) touches
\* nothing shared and completes in this step.
try_get(f, a) ==
    /\ pc[f] = "idle"
    /\ SumOver(calls, Fetchers) < cap.calls
    /\ calls' = [calls EXCEPT ![f] = @ + 1]
    /\ amount' = [amount EXCEPT ![f] = a]
    /\ callInfo' = [callInfo EXCEPT ![f] = NewCall(proxies[f], lockHolder)]
    /\ IF EnoughBuffered(proxies[f], a)
       THEN /\ ret' = [ret EXCEPT ![f] = OkRet(split_off(proxies[f], Len(proxies[f]) - a))]
            /\ proxies' = [proxies EXCEPT ![f] = split_off_kept(@, Len(@) - a)]
            /\ handed' = [handed EXCEPT ![f] = @ \o split_off(proxies[f], Len(proxies[f]) - a)]
            /\ pc' = pc
       ELSE /\ ret' = [ret EXCEPT ![f] = NoRet]
            /\ pc' = [pc EXCEPT ![f] = FillEntry(opts[f])]
            /\ UNCHANGED << proxies, handed >>
    /\ UNCHANGED << now, cfg_test, cap, lastResp, builder, built, initialized, last_fetched, lockHolder, poisoned, opts,
                    wakeAt, drained, requests, reqLog, appended >>

\* a caller calls try_get with some amount
TryGet(f) == \E a \in Amounts(f) : try_get(f, a)

\* lines 52-60: LAST_FETCHED.lock(); the first access creates the static
\* (lines 15-18); a poisoned mutex is taken over and its instant reset
\* (slip: the recovery clears the poison, as Mutex::clear_poison would)
AcquireClearing(f) ==
    /\ pc[f] = "lock"
    /\ LockFree(lockHolder)
    /\ lockHolder' = f
    /\ initialized' = TRUE
    /\ last_fetched' = LockedInstant(poisoned,
                                     IF initialized THEN last_fetched
                                     ELSE InitialInstant(now, Delay), now)
    /\ callInfo' = [callInfo EXCEPT ![f].recovered = poisoned]
    /\ poisoned' = FALSE
    /\ pc' = [pc EXCEPT ![f] = "loop"]
    /\ UNCHANGED << now, cfg_test, cap, lastResp, builder, built, opts, proxies, amount, wakeAt, ret,
                    drained, calls, requests, reqLog, appended, handed >>

Acquire(f) ==
    /\ pc[f] = "lock"
    /\ LockFree(lockHolder)
    /\ lockHolder' = f
    /\ initialized' = TRUE
    /\ last_fetched' = LockedInstant(poisoned,
                                     IF initialized THEN last_fetched
                                     ELSE InitialInstant(now, Delay), now)
    /\ callInfo' = [callInfo EXCEPT ![f].recovered = poisoned]
    /\ pc' = [pc EXCEPT ![f] = "loop"]
    /\ UNCHANGED << now, cfg_test, cap, lastResp, builder, built, poisoned, opts, proxies, amount, wakeAt, ret,
                    drained, calls, requests, reqLog, appended, handed >>

\* lines 77-78: Ok(split_off); the guard, if held, is dropped
ReturnOk(f) ==
    /\ ret' = [ret EXCEPT ![f] = OkRet(split_off(proxies[f], Len(proxies[f]) - amount[f]))]
    /\ proxies' = [proxies EXCEPT ![f] = split_off_kept(@, Len(@) - amount[f])]
    /\ handed' = [handed EXCEPT ![f] = @ \o split_off(proxies[f], Len(proxies[f]) - amount[f])]
    /\ lockHolder' = IF lockHolder = f THEN None ELSE lockHolder
    /\ pc' = [pc EXCEPT ![f] = "idle"]

\* lines 62-67: loop test, Instant::now(), delta
LoopCheck(f) ==
    /\ pc[f] = "loop"
    /\ IF NeedMore(proxies[f], amount[f])
       THEN /\ wakeAt' = [wakeAt EXCEPT ![f] = now + SleepDuration(now, last_fetched, Delay)]
            /\ pc' = [pc EXCEPT ![f] = IF SleepDuration(now, last_fetched, Delay) > 0
                                        THEN "sleeping" ELSE "fetch"]
            /\ callInfo' = [callInfo EXCEPT ![f].slept =
                                 IF cap.hist
                                 THEN Append(@, SleepDuration(now, last_fetched, Delay))
                                 ELSE @]
            /\ UNCHANGED << ret, proxies, handed, lockHolder >>
       ELSE /\ ReturnOk(f)
            /\ UNCHANGED << wakeAt, callInfo >>
    /\ UNCHANGED << now, cfg_test, cap, lastResp, builder, built, initialized, last_fetched, poisoned, opts, amount,
                    drained, calls, requests, reqLog, appended >>

\* lines 64-67: thread::sleep is called with the duration computed by
\* LoopCheck and returns, not before the duration has elapsed
Wake(f) ==
    /\ pc[f] = "sleeping"
    /\ now >= wakeAt[f]
    /\ wakeAt' = [wakeAt EXCEPT ![f] = 0]
    /\ pc' = [pc EXCEPT ![f] = "fetch"]
    /\ UNCHANGED << now, cfg_test, cap, lastResp, builder, built, initialized, last_fetched, lockHolder, poisoned, opts,
                    proxies, amount, ret, drained, calls, requests,
                    reqLog, callInfo, appended, handed >>

\* line 45: the loop test of the premium loop
PremiumLoopCheck(f) ==
    /\ pc[f] = "ploop"
    /\ IF NeedMore(proxies[f], amount[f])
       THEN /\ pc' = [pc EXCEPT ![f] = "fetch"]
            /\ UNCHANGED << ret, proxies, handed, lockHolder >>
       ELSE ReturnOk(f)
    /\ UNCHANGED << now, cfg_test, cap, lastResp, builder, built, initialized, last_fetched, poisoned, opts, amount,
                    wakeAt, drained, calls, requests, reqLog, callInfo, appended >>

\* lines 46/69 -> 93: request.call() is sent
Call(f) ==
    /\ pc[f] = "fetch"
    /\ cap.hist => SumOver(requests, Fetchers) < cap.reqs
    /\ requests' = [requests EXCEPT ![f] = IF cap.hist THEN @ + 1 ELSE @]
    /\ callInfo' = [callInfo EXCEPT ![f].reqs = IF cap.hist THEN @ + 1 ELSE @]
    /\ reqLog' = IF is_premium(opts[f]) \/ ~cap.hist THEN reqLog
                 ELSE Append(reqLog, [ f |-> f, call |-> calls[f], t |-> now,
                                       slept |-> callInfo[f].slept[Len(callInfo[f].slept)] ])
    /\ pc' = [pc EXCEPT ![f] = "inflight"]
    /\ UNCHANGED << now, cfg_test, cap, lastResp, builder, built, initialized, last_fetched, lockHolder, poisoned, opts,
                    proxies, amount, wakeAt, ret, drained, calls, appended,
                    handed >>

\* Fetched going round the loop again after an error
FetchedRetrying(f, out) ==
    /\ CASE out.kind = "Ok" ->
              \* the page is appended; the keyless loop goes on to line 73
              /\ proxies' = AppendTo(proxies, f, out.val)
              /\ appended' = [appended EXCEPT ![f] = @ \o out.val]
              /\ callInfo' = [callInfo EXCEPT ![f].got = @ \o out.val]
              /\ pc' = [pc EXCEPT ![f] = IF is_premium(opts[f]) THEN "ploop" ELSE "update"]
              /\ UNCHANGED << ret, lockHolder, poisoned >>
         [] out.kind = "Err" ->
              /\ pc' = [pc EXCEPT ![f] = IF is_premium(opts[f]) THEN "ploop" ELSE "loop"]
              /\ UNCHANGED << ret, lockHolder, proxies, appended, callInfo, poisoned >>
         [] out.kind = "Panic" ->
              \* unwinding drops the guard, which poisons the mutex
              /\ poisoned' = (poisoned \/ lockHolder = f)
              /\ lockHolder' = IF lockHolder = f THEN None ELSE lockHolder
              /\ pc' = [pc EXCEPT ![f] = "panicked"]
              /\ UNCHANGED << ret, proxies, appended, callInfo >>
    /\ UNCHANGED << now, cfg_test, cap, builder, built, initialized, last_fetched, opts, amount, wakeAt,
                    drained, calls, requests, reqLog, handed >>

\* The three ways fetch comes back into the loop body (lines 46-47, 69-70)
Fetched(f, out) ==
    /\ CASE out.kind = "Ok" ->
              \* the page is appended; the keyless loop goes on to line 73
              /\ proxies' = AppendTo(proxies, f, out.val)
              /\ appended' = [appended EXCEPT ![f] = @ \o out.val]
              /\ callInfo' = [callInfo EXCEPT ![f].got = @ \o out.val]
              /\ pc' = [pc EXCEPT ![f] = IF is_premium(opts[f]) THEN "ploop" ELSE "update"]
              /\ UNCHANGED << ret, lockHolder, poisoned >>
         [] out.kind = "Err" ->
              \* `?` returns the error; the guard is dropped on the way out
              /\ ret' = [ret EXCEPT ![f] = ErrRet(out.err)]
              /\ lockHolder' = IF lockHolder = f THEN None ELSE lockHolder
              /\ pc' = [pc EXCEPT ![f] = "idle"]
              /\ UNCHANGED << proxies, appended, callInfo, poisoned >>
         [] out.kind = "Panic" ->
              \* unwinding drops the guard, which poisons the mutex
              /\ poisoned' = (poisoned \/ lockHolder = f)
              /\ lockHolder' = IF lockHolder = f THEN None ELSE lockHolder
              /\ pc' = [pc EXCEPT ![f] = "panicked"]
              /\ UNCHANGED << ret, proxies, appended, callInfo >>
    /\ UNCHANGED << now, cfg_test, cap, builder, built, initialized, last_fetched, opts, amount, wakeAt,
                    drained, calls, requests, reqLog, handed >>

\* lines 93-100: the release build's fetch gets its response
Respond(f) ==
    /\ pc[f] = "inflight"
    /\ ~cfg_test
    /\ \E resp \in Responses(f) : Fetched(f, FetchOutcome(resp))
    /\ UNCHANGED lastResp

\* lines 101-130: the test build's fetch
MockRespond(f) ==
    /\ pc[f] = "inflight"
    /\ cfg_test
    /\ Fetched(f, MockOutcome(f))
    /\ UNCHANGED lastResp

\* line 73: *last_fetched = Instant::now()
\* (slip: the guard is given back after each request and taken again)
UpdateReleasing(f) ==
    /\ pc[f] = "update"
    /\ last_fetched' = now
    /\ lockHolder' = None
    /\ pc' = [pc EXCEPT ![f] = "lock"]
    /\ UNCHANGED << now, cfg_test, cap, lastResp, builder, built, initialized, poisoned, opts, proxies, amount,
                    wakeAt, ret, drained, calls, requests, reqLog, callInfo,
                    appended, handed >>

Update(f) ==
    /\ pc[f] = "update"
    /\ last_fetched' = now
    /\ pc' = [pc EXCEPT ![f] = "loop"]
    /\ UNCHANGED << now, cfg_test, cap, lastResp, builder, built, initialized, lockHolder, poisoned, opts, proxies, amount,
                    wakeAt, ret, drained, calls, requests, reqLog, callInfo,
                    appended, handed >>

\* Drain losing the last buffered record
DrainTruncating(f) ==
    /\ pc[f] = "idle"
    /\ drained' = [drained EXCEPT ![f] = SubSeq(proxies[f], 1, Len(proxies[f]) - 1)]
    /\ proxies' = [proxies EXCEPT ![f] = << >>]
    /\ pc' = [pc EXCEPT ![f] = "drained"]
    /\ UNCHANGED << now, cfg_test, cap, lastResp, builder, built, initialized, last_fetched, lockHolder, poisoned, opts,
                    amount, wakeAt, ret, calls, requests, reqLog, callInfo,
                    appended, handed >>

\* lines 133-135: drain consumes the Fetcher
Drain(f) ==
    /\ pc[f] = "idle"
    /\ drained' = [drained EXCEPT ![f] = proxies[f]]
    /\ proxies' = [proxies EXCEPT ![f] = << >>]
    /\ pc' = [pc EXCEPT ![f] = "drained"]
    /\ UNCHANGED << now, cfg_test, cap, lastResp, builder, built, initialized, last_fetched, lockHolder, poisoned, opts,
                    amount, wakeAt, ret, calls, requests, reqLog, callInfo,
                    appended, handed >>

\* the wall clock advances
Tick ==
    /\ now + cap.quantum <= cap.time
    /\ now' = now + cap.quantum
    /\ UNCHANGED << cfg_test, cap, lastResp, builder, built, initialized, last_fetched, lockHolder, poisoned, opts, proxies,
                    pc, amount, wakeAt, ret, drained, calls, requests, reqLog,
                    callInfo, appended, handed >>

\* ------------------------------------------------------------ behaviours
InitWith(present) ==
    /\ now = 0
    /\ initialized = FALSE
    /\ last_fetched = 0
    /\ lockHolder = None
    /\ poisoned = FALSE
    /\ opts = [f \in Fetchers |-> OptsNew(f \in Keyed)]
    /\ proxies = [f \in Fetchers |-> << >>]
    /\ pc = [f \in Fetchers |-> IF f \in present THEN "idle" ELSE "absent"]
    /\ amount = [f \in Fetchers |-> 0]
    /\ wakeAt = [f \in Fetchers |-> 0]
    /\ ret = [f \in Fetchers |-> NoRet]
    /\ drained = [f \in Fetchers |-> << >>]
    /\ calls = [f \in Fetchers |-> 0]
    /\ requests = [f \in Fetchers |-> 0]
    /\ reqLog = << >>
    /\ callInfo = [f \in Fetchers |-> NewCall(<< >>, None)]
    /\ appended = [f \in Fetchers |-> << >>]
    /\ handed = [f \in Fetchers |-> << >>]
    /\ lastResp = [f \in Fetchers |-> NoResp]

\* the program builds two Fetchers: two keyless ones, or a keyless and a
\* keyed one
InitCommon ==
    /\ \E absent \in {"p", "k2"} : InitWith(Fetchers \ {absent})
    /\ builder = NoBuilder
    /\ built = NotBuilt

\* how far the release build and the test build are followed: so many
\* calls and requests, all Fetchers together, the wall clock in steps of
\* `quantum` up to `time`, amounts of one more than `pages` pages, the
\* histories (requests, reqLog, callInfo.reqs, callInfo.slept) kept
CapsRelease ==
    [ calls |-> MaxCalls, reqs |-> MaxReqs, quantum |-> Quantum, time |-> MaxTime,
      pages |-> {1}, hist |-> TRUE ]
CapsTest ==
    [ calls |-> MaxCalls, reqs |-> MaxReqs, quantum |-> QuantumTest,
      time |-> MaxTimeTest, pages |-> {1}, hist |-> TRUE ]

Init == InitCommon /\ cfg_test = FALSE /\ cap = CapsRelease

Next ==
    \/ \E f \in Fetchers : TryGet(f)
    \/ \E f \in Fetchers : Acquire(f)
    \/ \E f \in Fetchers : LoopCheck(f)
    \/ \E f \in Fetchers : Wake(f)
    \/ \E f \in Fetchers : PremiumLoopCheck(f)
    \/ \E f \in Fetchers : Call(f)
    \/ \E f \in Fetchers : Respond(f)
    \/ \E f \in Fetchers : Update(f)
    \/ \E f \in Fetchers : Drain(f)
    \/ Tick

Spec == Init /\ [][Next]_vars

\* The test build (cfg(test)): fetch is the mock, DELAY is 100 ms
InitTest == InitCommon /\ cfg_test = TRUE /\ cap = CapsTest

NextTest ==
    \/ \E f \in Fetchers : TryGet(f)
    \/ \E f \in Fetchers : Acquire(f)
    \/ \E f \in Fetchers : LoopCheck(f)
    \/ \E f \in Fetchers : Wake(f)
    \/ \E f \in Fetchers : PremiumLoopCheck(f)
    \/ \E f \in Fetchers : Call(f)
    \/ \E f \in Fetchers : MockRespond(f)
    \/ \E f \in Fetchers : Update(f)
    \/ \E f \in Fetchers : Drain(f)
    \/ Tick

SpecTest == InitTest /\ [][NextTest]_vars

\* The release build followed for fewer requests: what happens to the
\* shared clock
CapsClock == [ CapsRelease EXCEPT !.reqs = MaxReqsClock ]

InitClock == InitCommon /\ cfg_test = FALSE /\ cap = CapsClock

SpecClock == InitClock /\ [][Next]_vars

\* ------------------------------------------------ request serialization
\* the clock specification's bounds with one more call, and the Fetchers whose Opts
\* serde_urlencoded::to_string refuses (the answer depends on the Opts
\* alone, so it is the same at every call of a Fetcher)
CapsSerialize(refused) ==
    [ calls |-> MaxCallsSerialize, reqs |-> MaxReqsClock, quantum |-> Quantum, time |-> MaxTime,
      pages |-> {1}, hist |-> TRUE, unser |-> refused ]

\* lines 81-89: to_string(&self.opts), Ok builds the request, Err panics
request_builder(f) == IF f \in cap.unser THEN "panic" ELSE "request"

\* the unwinding of try_get out of request_builder: nothing is held yet
SerializePanic(f, a) ==
    /\ pc[f] = "idle"
    /\ SumOver(calls, Fetchers) < cap.calls
    /\ calls' = [calls EXCEPT ![f] = @ + 1]
    /\ amount' = [amount EXCEPT ![f] = a]
    /\ callInfo' = [callInfo EXCEPT ![f] = NewCall(proxies[f], lockHolder)]
    /\ ret' = [ret EXCEPT ![f] = NoRet]
    /\ pc' = [pc EXCEPT ![f] = "panicked"]
    /\ UNCHANGED << now, cfg_test, cap, lastResp, builder, built, initialized, last_fetched, lockHolder, poisoned, opts,
                    proxies, wakeAt, drained, requests, reqLog, appended, handed >>

\* (slip: the request is built before the buffer is looked at)
try_get_built_eagerly(f, a) ==
    IF request_builder(f) = "request"
    THEN try_get(f, a)
    ELSE SerializePanic(f, a)

\* lines 34-41: try_get with the serializer's answer: the fast path does
\* not build a request, the fill path builds it first of all
try_get_built(f, a) ==
    IF EnoughBuffered(proxies[f], a) \/ request_builder(f) = "request"
    THEN try_get(f, a)
    ELSE SerializePanic(f, a)

TryGetBuilt(f) == \E a \in Amounts(f) : try_get_built(f, a)

InitSerialize ==
    /\ \E absent \in {"p", "k2"} :
          /\ InitWith(Fetchers \ {absent})
          /\ \E u \in Fetchers \ {absent} : cap = CapsSerialize({u})
    /\ cfg_test = FALSE
    /\ builder = NoBuilder
    /\ built = NotBuilt

NextSerialize ==
    \/ \E f \in Fetchers : TryGetBuilt(f)
    \/ \E f \in Fetchers : Acquire(f)
    \/ \E f \in Fetchers : LoopCheck(f)
    \/ \E f \in Fetchers : Wake(f)
    \/ \E f \in Fetchers : PremiumLoopCheck(f)
    \/ \E f \in Fetchers : Call(f)
    \/ \E f \in Fetchers : Respond(f)
    \/ \E f \in Fetchers : Update(f)
    \/ \E f \in Fetchers : Drain(f)
    \/ Tick

SpecSerialize == InitSerialize /\ [][NextSerialize]_vars

\* The test build with two keyless Fetchers, followed over four requests
\* and three calls (tests::delays)
CapsDelays ==
    [ calls |-> MaxCallsDelays, reqs |-> MaxReqsDelays, quantum |-> QuantumDelays,
      time |-> MaxTimeDelays, pages |-> {1}, hist |-> TRUE ]

InitDelays ==
    /\ InitWith({"k1", "k2"})
    /\ cfg_test = TRUE
    /\ cap = CapsDelays
    /\ builder = NoBuilder
    /\ built = NotBuilt

NextDelays ==
    \/ \E f \in Fetchers : TryGet(f)
    \/ \E f \in Fetchers : Acquire(f)
    \/ \E f \in Fetchers : LoopCheck(f)
    \/ \E f \in Fetchers : Wake(f)
    \/ \E f \in Fetchers : Call(f)
    \/ \E f \in Fetchers : MockRespond(f)
    \/ \E f \in Fetchers : Update(f)
    \/ \E f \in Fetchers : Drain(f)
    \/ Tick

SpecDelays == InitDelays /\ [][NextDelays]_vars

\* ------------------------------------------------------ after a panic
\* Two keyless Fetchers of the release build, with calls and time enough
\* for one to panic under the lock and the other to call twice afterwards.
CapsPoison ==
    [ calls |-> MaxCallsPoison, reqs |-> MaxReqsPoison, quantum |-> QuantumPoison,
      time |-> MaxTimePoison, pages |-> {1}, hist |-> TRUE ]

InitPoison ==
    /\ InitWith({"k1", "k2"})
    /\ cfg_test = FALSE
    /\ cap = CapsPoison
    /\ builder = NoBuilder
    /\ built = NotBuilt

NextPoison ==
    \/ \E f \in Fetchers : TryGet(f)
    \/ \E f \in Fetchers : Acquire(f)
    \/ \E f \in Fetchers : LoopCheck(f)
    \/ \E f \in Fetchers : Wake(f)
    \/ \E f \in Fetchers : Call(f)
    \/ \E f \in Fetchers : Respond(f)
    \/ \E f \in Fetchers : Update(f)
    \/ \E f \in Fetchers : Drain(f)
    \/ Tick

SpecPoison == InitPoison /\ [][NextPoison]_vars

\* ---------------------------------------------------- unbounded running
\* Neither the requests nor the time are bounded: the request counters and
\* logs are not kept, and instants are kept relative to the present.
CapsLive ==
    [ calls |-> MaxCallsLive, reqs |-> 0, quantum |-> QuantumLive, time |-> 0,
      pages |-> {1}, hist |-> FALSE ]

InitLive == InitCommon /\ cfg_test = FALSE /\ cap = CapsLive

\* Time passing, as lines 64-66 and thread::sleep see it: the present
\* stays at `now` and the instants move into the past. try_get only reads
\* now - last_fetched below DELAY (line 65) and a sleeper only waits for
\* wake-up time, so an elapsed time saturates at DELAY and a wake-up time
\* at the present.
Elapse ==
    /\ \/ initialized /\ last_fetched > now - Delay
       \/ \E f \in Fetchers : pc[f] = "sleeping" /\ wakeAt[f] > now
    /\ last_fetched' = IF initialized
                       THEN Max(last_fetched - cap.quantum, now - Delay)
                       ELSE last_fetched
    /\ wakeAt' = [f \in Fetchers |->
                    IF pc[f] = "sleeping" THEN Max(wakeAt[f] - cap.quantum, now)
                    ELSE wakeAt[f]]
    /\ UNCHANGED << now, cfg_test, cap, lastResp, builder, built, initialized, lockHolder, poisoned, opts, proxies,
                    pc, amount, ret, drained, calls, requests, reqLog,
                    callInfo, appended, handed >>

NextLive ==
    \/ \E f \in Fetchers : TryGet(f)
    \/ \E f \in Fetchers : Acquire(f)
    \/ \E f \in Fetchers : LoopCheck(f)
    \/ \E f \in Fetchers : Wake(f)
    \/ \E f \in Fetchers : PremiumLoopCheck(f)
    \/ \E f \in Fetchers : Call(f)
    \/ \E f \in Fetchers : Respond(f)
    \/ \E f \in Fetchers : Update(f)
    \/ \E f \in Fetchers : Drain(f)
    \/ Elapse

\* what a thread inside try_get does by itself once it has the clock or
\* needs none: lines 45-48 and 62-74 without the wait for the response
Runs(f) ==
    \/ LoopCheck(f)
    \/ Wake(f)
    \/ PremiumLoopCheck(f)
    \/ Call(f)
    \/ Update(f)

\* Fair scheduling: a thread that can run does run, every request gets
\* its response, time passes, and a thread waiting at LAST_FETCHED.lock()
\* (line 52) gets the lock if it is free again and again.
FairLive ==
    /\ \A f \in Fetchers : WF_vars(Runs(f))
    /\ \A f \in Fetchers : WF_vars(Respond(f))
    /\ \A f \in Fetchers : SF_vars(Acquire(f))
    /\ WF_vars(Elapse)

SpecLive == InitLive /\ [][NextLive]_vars /\ FairLive

\* The release build against a remote that answers with any status and
\* body: one keyless Fetcher, the response to its latest request recorded
RespondWide(f) ==
    /\ pc[f] = "inflight"
    /\ ~cfg_test
    /\ \E resp \in WideResponses(f) :
           /\ Fetched(f, FetchOutcome(resp))
           /\ lastResp' = [lastResp EXCEPT ![f] = resp]

InitRemote ==
    /\ InitWith({"k1"})
    /\ cfg_test = FALSE
    /\ cap = CapsRelease
    /\ builder = NoBuilder
    /\ built = NotBuilt

NextRemote ==
    \/ \E f \in Fetchers : TryGet(f)
    \/ \E f \in Fetchers : Acquire(f)
    \/ \E f \in Fetchers : LoopCheck(f)
    \/ \E f \in Fetchers : Wake(f)
    \/ \E f \in Fetchers : Call(f)
    \/ \E f \in Fetchers : RespondWide(f)
    \/ \E f \in Fetchers : Update(f)
    \/ \E f \in Fetchers : Drain(f)
    \/ Tick

SpecRemote == InitRemote /\ [][NextRemote]_vars

\* Building options: a builder with any of the inputs is finalized, or
\* its two durations are wrapped in their bounded newtypes
fetching == << now, cfg_test, cap, initialized, last_fetched, lockHolder, poisoned,
              opts, proxies, pc, amount, wakeAt, ret, drained, calls,
              requests, reqLog, callInfo, appended, handed, lastResp >>

\* OptsBuilder::try_build
try_build ==
    /\ built = NotBuilt
    /\ built' = OptsTryFrom(builder)
    /\ UNCHANGED << fetching, builder >>

\* LastChecked::new and TimeToConnect::new on the durations that are set
NewTypes ==
    /\ built = NotBuilt
    /\ built' = [ kind |-> "NewTypes",
                  last_checked |->
                      IF builder.last_checked = << >> THEN NotBuilt
                      ELSE BoundedValNew(builder.last_checked[1], LAST_CHECKED_BOUNDS),
                  time_to_connect |->
                      IF builder.time_to_connect = << >> THEN NotBuilt
                      ELSE BoundedValNew(builder.time_to_connect[1], TIME_TO_CONNECT_BOUNDS) ]
    /\ UNCHANGED << fetching, builder >>

InitOpts ==
    /\ InitWith({})
    /\ cfg_test = FALSE
    /\ cap = CapsRelease
    /\ builder \in Builders
    /\ built = NotBuilt

NextOpts ==
    \/ try_build
    \/ NewTypes

SpecOpts == InitOpts /\ [][NextOpts]_vars

\* =================================================================== claims
\* page_size of the spec: 5 without a credential, 20 with one
PageSize(f) == IF f \in Keyed THEN 20 ELSE 5

\* the Fetchers try_get treats as premium, and the others
Premium == { f \in Fetchers : is_premium(opts[f]) }
NonPremium == Fetchers \ Premium

\* f's thread takes a step
StepOf(f) ==
    \/ pc'[f] # pc[f]
    \/ calls'[f] # calls[f]
    \/ proxies'[f] # proxies[f]
    \/ ret'[f] # ret[f]

\* try_get(a) is entered on f in this step
Enters(f) == calls'[f] = calls[f] + 1

\* f sends a remote request in this step
Sends(f) == requests'[f] = requests[f] + 1

Count(x, seq) == Cardinality({ i \in 1..Len(seq) : seq[i] = x })
SameRecords(a, b) ==
    /\ Len(a) = Len(b)
    /\ \A x \in Range(a) \cup Range(b) : Count(x, a) = Count(x, b)

\* C1: the start instants of any two consecutive remote requests of
\* non-premium Fetchers are at least DELAY apart, also around calls that
\* end in an error.
C1_RateLimit ==
    \A i \in 1..(Len(reqLog) - 1) : reqLog[i + 1].t - reqLog[i].t >= Delay

\* C2: a try_get(amount) that returns Ok returns exactly `amount` records;
\* otherwise it returns an ApiError.
C2_ExactAmount ==
    \A f \in Fetchers :
        /\ ret[f].kind \in {"None", "Ok", "Err"}
        /\ ret[f].kind = "Ok" => Len(ret[f].val) = amount[f]

C2_Witness ==
    \E f \in Fetchers :
        /\ ret[f].kind = "Ok" /\ amount[f] > 1 /\ callInfo[f].reqs >= 1
        /\ \E g \in Fetchers : ret[g].kind = "Err"

\* C3: when the buffer holds at least `amount` records, try_get(amount)
\* returns exactly `amount` records in the step it is entered, sends no
\* request, leaves LAST_FETCHED (guard, instant, poison, creation) alone and
\* shrinks the buffer by `amount`.
C3_BufferSufficiency ==
    [][ \A f \in Fetchers :
          (Enters(f) /\ Len(proxies[f]) >= amount'[f]) =>
              /\ pc'[f] = "idle"
              /\ ret'[f].kind = "Ok"
              /\ Len(ret'[f].val) = amount'[f]
              /\ Len(proxies'[f]) = Len(proxies[f]) - amount'[f]
              /\ requests' = requests /\ reqLog' = reqLog
              /\ lockHolder' = lockHolder /\ last_fetched' = last_fetched
              /\ poisoned' = poisoned /\ initialized' = initialized ]_vars

C3_Witness ==
    \E f \in Fetchers :
        /\ ret[f].kind = "Ok" /\ amount[f] = 1 /\ callInfo[f].reqs = 0
        /\ callInfo[f].pre # << >> /\ Len(proxies[f]) = Len(callInfo[f].pre) - 1
        /\ pc[f] = "idle"

\* C4: at most one non-premium thread at a time is between lock() returning
\* and the guard being dropped (delay, request, timestamp update), and it
\* is the holder of the guard.
InCritical(f) == pc[f] \in {"loop", "sleeping", "fetch", "inflight", "update"}

C4_MutualExclusion ==
    \A f \in NonPremium : InCritical(f) =>
        /\ lockHolder = f
        /\ \A g \in NonPremium \ {f} : ~InCritical(g)

C4_Witness ==
    \E f, g \in NonPremium : pc[f] = "sleeping" /\ pc[g] = "lock"

\* C5: a premium try_get never waits for, holds, reads or writes
\* LAST_FETCHED and never sleeps: it is never at a lock/delay/update
\* position, none of its steps changes the guard, the instant, the poison
\* flag or the static's creation, and none of its steps waits for time.
C5_PremiumBypass ==
    [][ \A f \in Premium :
          /\ pc'[f] \notin {"lock", "loop", "sleeping", "update"}
          /\ StepOf(f) =>
                /\ lockHolder' = lockHolder /\ last_fetched' = last_fetched
                /\ poisoned' = poisoned /\ initialized' = initialized
                /\ now' = now ]_vars

\* a premium call entered while a keyless thread held the guard has sent
\* two requests and returned, the same keyless call still holding the guard
C5_Witness ==
    \E f \in Premium, g \in NonPremium :
        /\ callInfo[f].lockAtEntry = g /\ lockHolder = g /\ calls[g] = 1
        /\ pc[g] = "sleeping"
        /\ ret[f].kind = "Ok" /\ callInfo[f].reqs = 2 /\ pc[f] = "idle"

\* C6: when a request of the fill loop fails, try_get returns the error and
\* the buffer is the buffer at entry followed by the records appended by
\* the call's earlier requests; drain hands exactly these out.
C6_PartialProgress ==
    \A f \in Fetchers : ret[f].kind = "Err" =>
        /\ pc[f] = "idle" => proxies[f] = callInfo[f].pre \o callInfo[f].got
        /\ pc[f] = "drained" => drained[f] = callInfo[f].pre \o callInfo[f].got

C6_Witness ==
    \E f \in Fetchers :
        ret[f].kind = "Err" /\ callInfo[f].got # << >> /\ pc[f] = "drained"

\* C7: after a panic under the guard, lock() of the next keyless fill
\* returns (the poisoned guard is taken over), the instant is set to the
\* current time, and every request is sent no earlier than DELAY after the
\* instant the guard protects.
C7_PoisonRecovery ==
    [][ \A f \in NonPremium :
          /\ (pc[f] = "lock" /\ pc'[f] = "loop" /\ poisoned) =>
                (last_fetched' = now /\ lockHolder' = f)
          /\ Sends(f) => (lockHolder = f /\ now >= last_fetched + Delay) ]_vars

C7_Witness ==
    \E f \in NonPremium :
        /\ callInfo[f].recovered /\ callInfo[f].reqs = 1
        /\ callInfo[f].slept = << Delay >>

\* C8: once a Fetcher is drained, the records its try_get calls returned
\* together with the records drain returned are the records appended to
\* its buffer, each exactly once.
C8_Conservation ==
    \A f \in Fetchers : pc[f] = "drained" =>
        /\ SameRecords(handed[f] \o drained[f], appended[f])
        /\ \A x \in Range(appended[f]) : Count(x, handed[f] \o drained[f]) = 1

C8_Witness ==
    \E f \in Fetchers :
        /\ pc[f] = "drained" /\ calls[f] = 2 /\ ret[f].kind = "Ok"
        /\ Len(handed[f]) > 1 /\ drained[f] # << >>

\* C9 as stated: a successful try_get(k), k > page_size, sends at least
\* ceil(k / page_size) requests and each appends page_size records.
C9_Original ==
    \A f \in Fetchers : (ret[f].kind = "Ok" /\ amount[f] > PageSize(f)) =>
        /\ callInfo[f].reqs >= CeilDiv(amount[f], PageSize(f))
        /\ Len(callInfo[f].got) = callInfo[f].reqs * PageSize(f)

\* C9 amended: a successful try_get(k), k > page_size, on a buffer of b
\* records sends at least ceil((k - b) / page_size) requests, each appends
\* at most page_size records, and the buffer then covers k.
C9_CountAccumulation ==
    \A f \in Fetchers : (ret[f].kind = "Ok" /\ amount[f] > PageSize(f)) =>
        /\ callInfo[f].reqs >=
              Max(0, CeilDiv(amount[f] - Len(callInfo[f].pre), PageSize(f)))
        /\ Len(callInfo[f].got) <= callInfo[f].reqs * PageSize(f)
        /\ Len(callInfo[f].pre) + Len(callInfo[f].got) >= amount[f]

C9_Witness ==
    \E f \in Fetchers :
        /\ ret[f].kind = "Ok" /\ amount[f] > PageSize(f)
        /\ callInfo[f].pre # << >> /\ callInfo[f].reqs = 1

\* C10: in the test build, once both keyless Fetchers have made their one
\* try_get(1) from a fresh clock and empty buffers, exactly two requests
\* were sent, at least DELAY apart, both calls returned Ok and each buffer
\* holds page_size - 1 records.
ScenarioDone ==
    \A f \in NonPremium : calls[f] = 1 /\ amount[f] = 1 /\ pc[f] = "idle"

C10_Scenario ==
    ScenarioDone =>
        /\ SumOver(requests, Fetchers) = Cardinality(NonPremium)
        /\ Len(reqLog) = Cardinality(NonPremium)
        /\ \A i \in 1..(Len(reqLog) - 1) : reqLog[i + 1].t - reqLog[i].t >= DELAY_TEST
        /\ \A f \in NonPremium :
              /\ ret[f].kind = "Ok" /\ Len(ret[f].val) = 1
              /\ Len(proxies[f]) = PageSize(f) - 1

C10_Witness == ScenarioDone /\ cfg_test

\* ---------------------------------------------------------------------
\* the four literal messages of the API and the error each one names
KnownTexts == {INVALID_API_KEY, RATE_LIMIT, DAILY_LIMIT, NO_PROXY}
NamedFor(text) ==
    CASE text = INVALID_API_KEY -> "ApiKey"
      [] text = RATE_LIMIT -> "RateLimit"
      [] text = DAILY_LIMIT -> "DailyLimit"
      [] text = NO_PROXY -> "NoProxy"

\* f's request in flight is answered in this step
Answers(f) == pc[f] = "inflight" /\ pc'[f] # "inflight"

\* C11: when a request is answered with a 2xx status and a body that is
\* neither the expected JSON nor a known message, try_get returns
\* Err(ApiError::Unknown) to the caller.
C11_UnknownClassification ==
    [][\A f \in Fetchers :
         ( /\ Answers(f)
           /\ lastResp'[f].status \in 200..299
           /\ ~lastResp'[f].is_json
           /\ lastResp'[f].text \notin KnownTexts )
         => ret'[f] = ErrRet(NamedError("Unknown"))]_vars

\* C12: whatever the status (2xx, 4xx, 5xx or any other), an answer whose
\* body is one of the four known messages makes try_get return the error
\* that message names; the status plays no part.
C12_KnownMessage ==
    [][\A f \in Fetchers :
         (Answers(f) /\ lastResp'[f].text \in KnownTexts)
         => ret'[f] = ErrRet(NamedError(NamedFor(lastResp'[f].text)))]_vars

\* a 503 carrying the invalid-key message came back as ApiKey
C12_Witness ==
    \E f \in Fetchers :
        /\ lastResp[f] = TextResponse(503, INVALID_API_KEY)
        /\ ret[f] = ErrRet(NamedError("ApiKey"))

\* C13: an answer whose body is not a known message makes try_get return
\* Client{status, text} for a status in 400..499 and Server{status, text}
\* for a status in 500..599, status and text being those of the answer.
C13_StatusClassification ==
    [][\A f \in Fetchers :
         (Answers(f) /\ lastResp'[f].text \notin KnownTexts)
         => /\ lastResp'[f].status \in 400..499
                => ret'[f] = ErrRet([ variant |-> "Client",
                                      status |-> lastResp'[f].status,
                                      text |-> lastResp'[f].text ])
            /\ lastResp'[f].status \in 500..599
                => ret'[f] = ErrRet([ variant |-> "Server",
                                      status |-> lastResp'[f].status,
                                      text |-> lastResp'[f].text ])]_vars

\* a 400 with an unknown body came back as Client with that status and body
C13_Witness ==
    \E f \in Fetchers :
        /\ lastResp[f] = TextResponse(400, OTHER_TEXT)
        /\ ret[f] = ErrRet([ variant |-> "Client", status |-> 400, text |-> OTHER_TEXT ])

\* ---------------------------------------------------------------------
\* the shared clock: the mutex and the instant it guards
clock == << initialized, last_fetched, lockHolder, poisoned >>

\* C14: drain returns exactly the records buffered when it is called
\* (possibly none), sends no request and leaves the shared clock alone;
\* a drained Fetcher is gone: it never enters try_get or sends again.
C14_Drain ==
    [][\A f \in Fetchers :
         /\ (pc[f] = "idle" /\ pc'[f] = "drained")
            => /\ drained'[f] = proxies[f]
               /\ requests' = requests
               /\ reqLog' = reqLog
               /\ clock' = clock
         /\ pc[f] = "drained"
            => /\ pc'[f] = "drained"
               /\ calls'[f] = calls[f]
               /\ requests'[f] = requests[f]
               /\ drained'[f] = drained[f]]_vars

\* a Fetcher drained of the four records left by try_get(1), after which
\* the other Fetcher went through a call of its own
C14_Witness ==
    \E f \in Fetchers :
        /\ pc[f] = "drained"
        /\ Len(drained[f]) = 4
        /\ \E g \in Fetchers \ {f} : calls[g] = 1 /\ ret[g].kind = "Ok"

Acts(f) == pc'[f] # pc[f] \/ calls'[f] # calls[f]

\* C16: a Fetcher's buffer is empty until its own first try_get, and a
\* step of one Fetcher (in try_get or drain) leaves the buffer and the
\* parameters of every other Fetcher as they were; parameters never
\* change at all.
C16_Independence ==
    /\ [](\A f \in Fetchers : calls[f] = 0 => proxies[f] = << >>)
    /\ [][/\ opts' = opts
          /\ \A g \in Fetchers :
                ~Acts(g) => proxies'[g] = proxies[g] /\ drained'[g] = drained[g]]_vars

\* two Fetchers side by side, each holding records of its own pages only
C16_Witness ==
    \E f, g \in Fetchers :
        /\ f # g
        /\ proxies[f] # << >> /\ proxies[g] # << >>
        /\ \A i \in 1..Len(proxies[f]) : proxies[f][i].socket[1] = f
        /\ \A i \in 1..Len(proxies[g]) : proxies[g][i].socket[1] = g
        /\ pc[g] = "idle"

\* ---------------------------------------------------------------------
\* a duration, when set, lies between lo and hi milliseconds inclusive
Within(d, lo, hi) == d = << >> \/ (d[1] >= lo /\ d[1] <= hi)
LastCheckedOk(b) == Within(b.last_checked, 60 * 1000, 60 * 60 * 1000)
TimeToConnectOk(b) == Within(b.time_to_connect, 1000, 60 * 1000)

\* C17: building options succeeds iff last_checked, when set, lies in
\* [1 minute, 60 minutes] and time_to_connect, when set, lies in
\* [1 second, 60 seconds], bounds included; a failure is OutOfBounds with
\* the offending value and its bounds; a value out of range is never
\* turned into one in range. The bounded newtypes accept and reject the
\* same values.
C17_BoundsValidation ==
    /\ built.kind \in {"Ok", "Err"}
       => /\ built.kind = "Ok" <=> (LastCheckedOk(builder) /\ TimeToConnectOk(builder))
          /\ built.kind = "Err"
             => \/ /\ ~LastCheckedOk(builder)
                   /\ built.err.variant = "OutOfBounds"
                   /\ built.err.value = builder.last_checked[1]
                   /\ built.err.bounds = << 60 * 1000, 60 * 60 * 1000 >>
                \/ /\ ~TimeToConnectOk(builder)
                   /\ built.err.variant = "OutOfBounds"
                   /\ built.err.value = builder.time_to_connect[1]
                   /\ built.err.bounds = << 1000, 60 * 1000 >>
          /\ built.kind = "Ok"
             => /\ builder.last_checked # << >>
                   => built.val.last_checked = << builder.last_checked[1] \div 60000 >>
                /\ builder.time_to_connect # << >>
                   => built.val.time_to_connect = << builder.time_to_connect[1] \div 1000 >>
    /\ built.kind = "NewTypes"
       => /\ builder.last_checked # << >>
             => built.last_checked =
                  IF LastCheckedOk(builder)
                  THEN [ kind |-> "Ok", val |-> builder.last_checked[1] ]
                  ELSE OutOfBounds("", << 60 * 1000, 60 * 60 * 1000 >>,
                                   builder.last_checked[1])
          /\ builder.time_to_connect # << >>
             => built.time_to_connect =
                  IF TimeToConnectOk(builder)
                  THEN [ kind |-> "Ok", val |-> builder.time_to_connect[1] ]
                  ELSE OutOfBounds("", << 1000, 60 * 1000 >>,
                                   builder.time_to_connect[1])

\* a builder with last_checked of exactly one hour and time_to_connect
\* of exactly one second was accepted, and holds sixty minutes
C17_Witness ==
    /\ builder.last_checked = << 3600000 >>
    /\ builder.time_to_connect = << 1000 >>
    /\ built.kind = "Ok"
    /\ built.val.last_checked = << 60 >>

\* ---------------------------------------------------------------------
\* C18: the page size of a Fetcher's parameters is 20 if they were built
\* with a credential and 5 otherwise, the Fetcher is premium iff they
\* were built with a credential, and neither ever changes while the
\* Fetcher lives.
C18_TierFields ==
    /\ [](\A f \in Fetchers :
            /\ opts[f].limit = (IF f \in Keyed THEN 20 ELSE 5)
            /\ is_premium(opts[f]) <=> f \in Keyed)
    /\ [][\A f \in Fetchers :
            /\ opts'[f].limit = opts[f].limit
            /\ is_premium(opts'[f]) <=> is_premium(opts[f])]_vars

\* a Fetcher with a credential and one without side by side, each after a
\* request that appended a full page: 20 records and 5 records
C18_Witness ==
    \E f \in Keyed, g \in Keyless :
        /\ requests[f] = 1 /\ Len(appended[f]) = 20
        /\ requests[g] = 1 /\ Len(appended[g]) = 5

\* ---------------------------------------------------------------------
\* the records of a JSON page whose country code is a known one
Recognised(page) ==
    { i \in 1..Len(page.data) : page.data[i].country \in {"CA", "US"} }

\* C19: no record whose country is the Unspecified sentinel is ever in a
\* buffer or handed to a caller; a page holding records with an
\* unrecognised country code does not fail: its other records are
\* appended and the call goes on.
C19_NoUnspecified ==
    /\ [](\A f \in Fetchers :
            \A buf \in {proxies[f], ret[f].val, drained[f], handed[f]} :
                \A i \in 1..Len(buf) : buf[i].country # "Unspecified")
    /\ [][\A f \in Fetchers :
            ( /\ Answers(f)
              /\ lastResp'[f].is_json
              /\ lastResp'[f].status \in 200..299 )
            => /\ pc'[f] # "panicked"
               /\ ret'[f].kind # "Err"
               /\ Len(proxies'[f]) = Len(proxies[f]) + Cardinality(Recognised(lastResp'[f]))]_vars

\* a page of five with one unrecognised country code left four records
C19_Witness ==
    \E f \in Fetchers :
        /\ lastResp[f].is_json
        /\ Cardinality(Recognised(lastResp[f])) = 4
        /\ Len(lastResp[f].data) = 5
        /\ pc[f] = "update"
        /\ Len(proxies[f]) = 4

\* ---------------------------------------------------------------------
\* C20: every request of a Fetcher without a credential is followed,
\* before the lock is released and before any further request, by
\* setting the shared timestamp to the present instant; so whenever
\* nobody holds the lock the timestamp is not older than the latest such
\* request.
C20_TimestampFollowsRequest ==
    (lockHolder = None /\ reqLog # << >>)
        => last_fetched >= reqLog[Len(reqLog)].t

\* ---------------------------------------------------------------------
\* C21: once created, the shared timestamp never decreases, whatever the
\* interleaving of try_get and drain calls, recoveries from a poisoned
\* lock included.
C21_MonotoneTimestamp ==
    [][initialized => last_fetched' >= last_fetched]_vars

\* the other Fetcher's request, sent after time had passed, panicked
\* under the lock; the recovery then set the timestamp to the present
C21_Witness ==
    \E f \in NonPremium :
        /\ callInfo[f].recovered
        /\ pc[f] = "loop"
        /\ last_fetched = now
        /\ reqLog # << >>
        /\ reqLog[Len(reqLog)].t > 0
        /\ reqLog[Len(reqLog)].f # f

\* C22: the shared timestamp is written only by the thread holding the
\* lock, only with the present instant, and only in two places: after a
\* successful request of a Fetcher without a credential, and when a
\* poisoned lock is taken over.  The buffer-only path, the calls of a
\* Fetcher with a credential and drain leave the clock alone.
C22_WritesUnderLock ==
    [][/\ (initialized /\ last_fetched' # last_fetched)
          => \E f \in NonPremium :
                /\ lockHolder' = f
                /\ last_fetched' = now
                /\ \/ pc[f] = "update" /\ lockHolder = f
                   \/ pc[f] = "lock" /\ pc'[f] = "loop" /\ poisoned
       /\ \A g \in Fetchers :
             ( /\ Acts(g)
               /\ \/ g \in Premium
                  \/ pc'[g] = "drained"
                  \/ Enters(g) )
             => clock' = clock]_vars

\* both writes in one call: the lock was taken over poisoned, and the
\* request made after it succeeded and was followed by the update
C22_Witness ==
    \E f \in NonPremium :
        /\ callInfo[f].recovered
        /\ callInfo[f].got # << >>
        /\ pc[f] = "loop"
        /\ lockHolder = f
        /\ last_fetched = now
        /\ now > 0

\* ---------------------------------------------------------------------
\* f is at a point of try_get where it waits: for the lock, for the end
\* of a sleep, for a response
Suspended(f) == pc[f] \in {"lock", "sleeping", "inflight"}

\* C23: a try_get the buffer can satisfy completes at once, also while
\* another thread holds the shared clock (sleeping or with a request in
\* flight): it returns its records without touching the clock, and no
\* call that waits anywhere had enough records buffered when it began.
C23_FastPathNeverBlocks ==
    /\ [](\A f \in Fetchers : Suspended(f) => Len(callInfo[f].pre) < amount[f])
    /\ [][\A f \in Fetchers :
            (Enters(f) /\ Len(proxies[f]) >= amount'[f])
            => /\ pc'[f] = "idle"
               /\ ret'[f].kind = "Ok"
               /\ Len(ret'[f].val) = amount'[f]
               /\ clock' = clock
               /\ \A g \in Fetchers \ {f} : pc'[g] = pc[g]]_vars

\* a record was handed out of a buffer of four by a call entered while the
\* other Fetcher held the clock, and that Fetcher is still asleep under it
C23_Witness ==
    \E f, g \in Fetchers :
        /\ f # g
        /\ callInfo[f].lockAtEntry = g
        /\ Len(callInfo[f].pre) = 4
        /\ amount[f] = 1
        /\ ret[f].kind = "Ok"
        /\ pc[f] = "idle"
        /\ lockHolder = g
        /\ pc[g] = "sleeping"

\* ---------------------------------------------------------------------
\* the sum of a sequence of durations
RECURSIVE SumSeq(_)
SumSeq(seq) == IF seq = << >> THEN 0 ELSE seq[1] + SumSeq(Tail(seq))

\* C28: before each request of a Fetcher without a credential the thread
\* sleeps exactly max(0, DELAY - elapsed), elapsed being the time since
\* the shared timestamp, and not at all once DELAY has elapsed; a
\* sleeping thread is due exactly DELAY after the timestamp.  So m
\* requests from a fresh clock are preceded by at most m - 1 sleeps, none
\* before the first, each of at most DELAY.
C28_NoOverDelay ==
    /\ [](/\ \A f \in NonPremium :
                pc[f] = "sleeping" => wakeAt[f] = last_fetched + Delay
          /\ \A i \in 1..Len(reqLog) :
                /\ reqLog[i].slept >= 0 /\ reqLog[i].slept <= Delay
                /\ i = 1 => reqLog[i].slept = 0
          /\ SumSeq([ i \in 1..Len(reqLog) |-> reqLog[i].slept ])
                <= Max(0, Len(reqLog) - 1) * Delay)
    /\ [][\A f \in NonPremium :
            (pc[f] = "loop" /\ pc'[f] \in {"sleeping", "fetch"})
            => LET elapsed == now - last_fetched
                   slept == callInfo'[f].slept[Len(callInfo'[f].slept)]
               IN  /\ slept = Max(0, Delay - elapsed)
                   /\ elapsed >= Delay => pc'[f] = "fetch"
                   /\ pc'[f] = "sleeping" => wakeAt'[f] = now + slept]_vars

\* four requests of the two keyless Fetchers, back to back from a fresh
\* clock: no sleep before the first, DELAY before each of the other three
C28_Witness ==
    /\ Len(reqLog) = 4
    /\ [ i \in 1..4 |-> reqLog[i].slept ] = << 0, Delay, Delay, Delay >>
    /\ reqLog[4].t - reqLog[1].t = 3 * Delay
    /\ { reqLog[i].f : i \in 1..4 } = {"k1", "k2"}

\* ---------------------------------------------------------------------
\* an answer fetch turns into records: a 2xx JSON page that decodes
GoodPage(resp) ==
    /\ resp.is_json
    /\ resp.status \in 200..299
    /\ \A i \in 1..Len(resp.data) : resp.data[i].time_ok

\* C25: a failed request is never retried: the answer that fails ends the
\* call at once, with the error or the panic, and a request is only sent
\* by a call that has seen no failure; so a call has at most one failing
\* request, its last.
C25_NoRetry ==
    [][\A f \in Fetchers :
         /\ (Answers(f) /\ ~GoodPage(lastResp'[f]))
            => /\ pc'[f] \in {"idle", "panicked"}
               /\ pc'[f] = "idle" => ret'[f].kind = "Err"
               /\ proxies'[f] = proxies[f]
         /\ Sends(f) => ret[f].kind = "None"]_vars

\* the second request of a call failed after the first had brought a page:
\* the call returned the error with two requests sent
C25_Witness ==
    \E f \in Fetchers :
        /\ callInfo[f].reqs = 2
        /\ Len(callInfo[f].got) = 5
        /\ ~GoodPage(lastResp[f])
        /\ ret[f].kind = "Err"
        /\ pc[f] = "idle"

\* ---------------------------------------------------------------------
\* the step in which a call of f comes back with Ok: the fast path taken
\* on entry, or either fill loop finding the buffer long enough
ReturnsOk(f) ==
    /\ Enters(f) \/ pc[f] \in {"loop", "ploop"}
    /\ pc'[f] = "idle"
    /\ ret'[f].kind = "Ok"

\* C26: a successful try_get(amount) hands out the last `amount` records
\* of the buffer in buffer order and leaves the prefix before them as the
\* buffer, on the fast path and after a fill alike.
C26_TailConsumption ==
    [][\A f \in Fetchers :
         ReturnsOk(f)
            => /\ Len(ret'[f].val) = amount'[f]
               /\ proxies[f] = proxies'[f] \o ret'[f].val]_vars

\* a fill brought a page of five for try_get(1), which took the fifth; a
\* second try_get(1) then took the fourth from the buffer, leaving three
C26_Witness ==
    \E f \in Fetchers :
        /\ calls[f] = 2
        /\ Len(appended[f]) = 5
        /\ Len(callInfo[f].pre) = 4
        /\ pc[f] = "idle"
        /\ ret[f].kind = "Ok"
        /\ handed[f] = << appended[f][5], appended[f][4] >>
        /\ proxies[f] = SubSeq(appended[f], 1, 3)
        /\ appended[f][4] # appended[f][5]

\* ---------------------------------------------------------------------
\* C30: with pages of at most page_size records, a buffer that is shorter
\* than page_size when a call starts is shorter than page_size when the
\* call has returned Ok; a new Fetcher's buffer is empty, so after calls
\* that all ended Ok the buffer holds fewer than page_size records.
C30_BoundedResidue ==
    \A f \in Fetchers :
        /\ calls[f] = 0 => proxies[f] = << >>
        /\ pc[f] \in {"fetch", "inflight"} => Len(proxies[f]) < amount[f]
        /\ (pc[f] = "idle" /\ ret[f].kind = "Ok" /\ Len(callInfo[f].pre) < PageSize(f))
              => Len(proxies[f]) < PageSize(f)

\* try_get(1) left four records of its page behind; try_get(6) then
\* fetched one more page on top of the four and left three
C30_Witness ==
    \E f \in NonPremium :
        /\ calls[f] = 2
        /\ Len(callInfo[f].pre) = 4
        /\ amount[f] = 6
        /\ Len(callInfo[f].got) = 5
        /\ pc[f] = "idle"
        /\ ret[f].kind = "Ok"
        /\ Len(proxies[f]) = 3

\* ---------------------------------------------------------------------
\* C27: a try_get whose request cannot be serialized panics: it returns
\* no ApiError, and it panics before the clock is acquired and before any
\* request, so the buffer, the timestamp and the lock are as they were and
\* the clock is not poisoned; a try_get the buffer satisfies builds no
\* request and returns Ok whatever the serializer would say.
C27_SerializeAborts ==
    /\ [](\A f \in cap.unser :
             /\ requests[f] = 0
             /\ lockHolder # f
             /\ pc[f] \in {"absent", "idle", "panicked", "drained"}
             /\ ret[f].kind # "Err")
    /\ [][\A f \in cap.unser :
            Enters(f)
              => /\ clock' = clock
                 /\ requests' = requests
                 /\ \A g \in Fetchers \ {f} : pc'[g] = pc[g]
                 /\ IF Len(proxies[f]) >= amount'[f]
                    THEN /\ pc'[f] = "idle"
                         /\ ret'[f].kind = "Ok"
                         /\ Len(ret'[f].val) = amount'[f]
                    ELSE /\ pc'[f] = "panicked"
                         /\ ret'[f].kind = "None"
                         /\ proxies' = proxies]_vars

\* a Fetcher whose Opts do not serialize: try_get(0) returned Ok, then
\* try_get(1) panicked while another Fetcher held the clock, which stays
\* held and unpoisoned
C27_Witness ==
    \E f \in cap.unser : \E g \in NonPremium \ {f} :
        /\ calls[f] = 2
        /\ amount[f] = 1
        /\ pc[f] = "panicked"
        /\ proxies[f] = << >>
        /\ requests[f] = 0
        /\ lockHolder = g
        /\ pc[g] = "sleeping"
        /\ ~poisoned

\* ---------------------------------------------------------------------
\* a call of f is under way
InCall(f) == pc[f] \in {"lock", "loop", "sleeping", "fetch", "inflight", "update", "ploop"}

\* C29: under fair scheduling, with every request answered, every try_get
\* call comes to an end.
C29_Termination ==
    \A f \in Fetchers : InCall(f) ~> ~InCall(f)

\* C24: a thread that is not inside try_get does not hold the clock, and
\* under fair scheduling, with every request answered, every thread
\* waiting for the clock gets it.
C24_ClockReleased ==
    /\ [](\A f \in Fetchers : ~InCall(f) => lockHolder # f)
    /\ \A f \in Fetchers : (pc[f] = "lock") ~> (pc[f] # "lock")

\* ---------------------------------------------------------------------
\* ceil((a - b) / size) for a > b, 0 otherwise
PagesNeeded(a, b, size) == IF a > b THEN (a - b + size - 1) \div size ELSE 0

\* C31: with pages of exactly page_size records (the test build's mock), a
\* try_get(amount) that returned Ok on a buffer of b records has sent
\* max(0, ceil((amount - b) / page_size)) requests and has left
\* b + requests * page_size - amount records in the buffer.
C31_MinimalRequests ==
    \A f \in Fetchers :
        (calls[f] > 0 /\ pc[f] = "idle" /\ ret[f].kind = "Ok")
          => LET b == Len(callInfo[f].pre) IN
             /\ callInfo[f].reqs = PagesNeeded(amount[f], b, PageSize(f))
             /\ Len(proxies[f]) = b + callInfo[f].reqs * PageSize(f) - amount[f]

\* try_get(6) on an empty buffer took two pages and left four records
C31_Witness ==
    \E f \in NonPremium :
        /\ cfg_test
        /\ callInfo[f].pre = << >>
        /\ amount[f] = 6
        /\ callInfo[f].reqs = 2
        /\ pc[f] = "idle"
        /\ ret[f].kind = "Ok"
        /\ Len(proxies[f]) = 4

\* ---------------------------------------------------------------------
\* requests i and j of the log were sent by the same try_get call
SameCall(i, j) == reqLog[i].f = reqLog[j].f /\ reqLog[i].call = reqLog[j].call

\* C32: the clock is held for the whole fill loop of a call: a holder
\* gives it up only in the step that ends its call, and in the order of
\* all non-premium requests the requests of one call are contiguous.
C32_ContiguousRequests ==
    /\ [](\A i, k \in 1..Len(reqLog) :
             (i < k /\ SameCall(i, k))
                => \A j \in i..k : SameCall(i, j))
    /\ [][\A f \in NonPremium :
            (lockHolder = f /\ lockHolder' # f)
               => /\ pc'[f] \in {"idle", "panicked"}
                  /\ lockHolder' = None]_vars

\* one Fetcher sent the two requests of its call while the other waited
\* for the clock, then the other sent the two requests of its call
C32_Witness ==
    /\ Len(reqLog) = 4
    /\ SameCall(1, 2)
    /\ SameCall(3, 4)
    /\ reqLog[1].f # reqLog[3].f
    /\ callInfo[reqLog[3].f].lockAtEntry = reqLog[1].f
    /\ reqLog[3].t < reqLog[2].t + Delay + Delay

\* ---------------------------------------------------------------------
\* C33: poison is sticky. A panic of the thread holding the clock poisons
\* it and nothing clears the poison; from then on whoever holds the clock
\* has taken the recovery branch, which sets the timestamp to the present;
\* the first loop test of such a call finds less than DELAY elapsed since
\* the reset unless the thread was held up that long in between, sleeps
\* until DELAY after the reset (a full DELAY when the test follows the
\* reset at once), and the call's first request is sent no earlier,
\* whenever the last request was.
C33_StickyPoison ==
    /\ [](\A f \in NonPremium : (poisoned /\ InCritical(f)) => callInfo[f].recovered)
    /\ [][/\ poisoned => poisoned'
          /\ \A f \in NonPremium :
                /\ (lockHolder = f /\ pc'[f] = "panicked") => poisoned'
                /\ (pc[f] = "lock" /\ pc'[f] = "loop" /\ poisoned)
                      => last_fetched' = now /\ callInfo'[f].recovered
                /\ (callInfo[f].recovered /\ callInfo[f].reqs = 0)
                      => /\ (pc[f] = "loop" /\ pc'[f] = "sleeping")
                            => /\ wakeAt'[f] = last_fetched + Delay
                               /\ now = last_fetched => callInfo'[f].slept = << Delay >>
                         /\ (pc[f] = "loop" /\ pc'[f] = "fetch")
                            => now >= last_fetched + Delay
                         /\ Sends(f) => now >= last_fetched + Delay]_vars

\* a Fetcher's only request panicked under the lock; the other Fetcher's
\* first call afterwards recovered and sent a request; its second call, a
\* full DELAY after that request, has recovered again and sleeps DELAY
C33_Witness ==
    \E f, g \in NonPremium :
        /\ f # g
        /\ pc[g] = "panicked"
        /\ poisoned
        /\ Len(reqLog) = 2
        /\ reqLog[1].f = g
        /\ reqLog[2].f = f /\ reqLog[2].call = 1
        /\ calls[f] = 2
        /\ callInfo[f].recovered
        /\ callInfo[f].reqs = 0
        /\ now >= reqLog[2].t + Delay
        /\ last_fetched = now
        /\ pc[f] = "sleeping"
        /\ callInfo[f].slept = << Delay >>

====
